---------------------------- MODULE Spec2Model ----------------------------
(***************************************************************************)
(* A model of ding.py, a host network-health probe.                        *)
(*                                                                         *)
(* The program is one sequential process.  Loading the module evaluates    *)
(* the body of the dataclass DingResult, whose three field defaults are    *)
(* calls (lines 74-76); running it as a script then calls execute()        *)
(* (line 117), which constructs a DingResult (line 107, running            *)
(* __post_init__, lines 84-97), prints it and ends with "DOWN" or "UP"     *)
(* (lines 108-113).  pc is the line the process is at; a process that      *)
(* ended keeps the pc of the line it ended on.  The operating system's     *)
(* route table is read afresh by every call of netifaces.gateways() and    *)
(* may change between two reads.                                           *)
(***************************************************************************)
EXTENDS Naturals, Integers, Sequences, FiniteSets, TLC

VARIABLES
    pc,           \* the line of ding.py the process is at
    system,       \* platform.system()
    gateways,     \* netifaces.gateways()["default"], the OS default routes
    resolv_conf,  \* the nameservers the OS has configured, in order
    cls,          \* the class attributes of DingResult set by lines 74-76
    self,         \* the fields (__dict__) of the DingResult instance
    output,       \* what the process has written, both streams, in order
    reports,      \* the texts __str__ has returned, in order
    exit_status,  \* "running", "success" (status 0) or "failure" (non-zero)
    raised,       \* the exception that ended the process, "none" if none
    calls,        \* history: the external checks invoked, in order
    lookups       \* history: the discovery lookups invoked, with the pc

vars == <<pc, system, gateways, resolv_conf, cls, self, output, reports,
          exit_status, raised, calls, lookups>>

\* The longest configured nameserver list.
MaxNameservers == 2

---------------------------------------------------------------------------
\* The environment: the values the operating system can hand the program.

Systems == {"Linux", "Windows"}

\* str.lower() on the values of platform.system().
lower(s) == CASE s = "Linux"   -> "linux"
              [] s = "Windows" -> "windows"
              [] OTHER         -> s

\* An entry of gateways()["default"] is the tuple (address, interface):
\* Python's [0] is <<..>>[1] here and Python's [1] is <<..>>[2].
V4Routes == {<<"192.168.1.1", "eth0">>, <<"10.0.0.1", "wlan0">>}
V6Route  == <<"fe80::1", "eth0">>

NoRoutes == [k \in {} |-> V6Route]

\* gateways()["default"]: a dict keyed by address family.
DefaultTables ==
    {NoRoutes}
      \cup {[k \in {"AF_INET6"} |-> V6Route]}
      \cup {[k \in {"AF_INET"} |-> r] : r \in V4Routes}

NameserverAddrs == {"192.168.1.1", "1.1.1.1"}

ResolvConfs ==
    UNION {[1..n -> NameserverAddrs] : n \in 0..MaxNameservers}

\* What one run of the ping utility can do: fail to start (subprocess.call
\* raises OSError), or start and exit with a status.
PingOutcomes ==
    {[started |-> TRUE, rc |-> n] : n \in 0..2}
      \cup {[started |-> FALSE, rc |-> 0]}

\* What dns.resolver.resolve can do: return an answer or raise.
DnsOutcomes == {"answer", "NXDOMAIN", "NoNameservers", "Timeout", "NoAnswer"}

NoResolver == [kind |-> "unset", nameservers |-> <<>>]

Out(stream, tag, arg) == [stream |-> stream, tag |-> tag, arg |-> arg]

---------------------------------------------------------------------------
\* The functions of ding.py, each as the value it returns, the lines it
\* prints, and the exception (or SystemExit) it ends with.

\* get_default_route_interface_name(), given what netifaces.gateways()
\* returned for "default".
get_default_route_interface_name(gw) ==
    IF "AF_INET" \in DOMAIN gw
    THEN [value |-> gw["AF_INET"][2], printed |-> <<>>, raised |-> "none",
          message |-> ""]
    ELSE [value |-> "",
          printed |-> <<Out("stdout", "no default gateway in", ""),
                        Out("stdout", "network interfaces: ", ""),
                        Out("stdout", "net_if_stats", "")>>,
          raised |-> "SystemExit", message |-> "No default gateway!"]

\* get_default_gateway(): the subscript [netifaces.AF_INET] raises KeyError
\* when the key is absent.
get_default_gateway(gw) ==
    IF "AF_INET" \in DOMAIN gw
    THEN [value |-> gw["AF_INET"][1], printed |-> <<>>, raised |-> "none",
          message |-> ""]
    ELSE [value |-> "", printed |-> <<>>, raised |-> "KeyError",
          message |-> "Traceback"]

\* The ping command line of is_host_reachable.
ping_command(sys, host) ==
    LET param == IF lower(sys) = "windows" THEN "-n" ELSE "-c"
    IN  <<"ping", param, "1", host>>

\* is_host_reachable(host), given what the ping invocation did.
is_host_reachable(host, out) ==
    IF ~out.started
    THEN [value |-> FALSE, printed |-> <<>>, raised |-> "FileNotFoundError"]
    ELSE LET result == (out.rc = 0)
         IN  [value |-> result,
              printed |-> IF ~result
                          THEN <<Out("stdout", "was not reachable...", host)>>
                          ELSE <<>>,
              raised |-> "none"]

\* is_host_resolvable(host), given what resolve(host) did.
is_host_resolvable(host, out) ==
    CASE out = "answer" ->
           [value |-> TRUE, printed |-> <<>>, raised |-> "none"]
      [] out = "NXDOMAIN" ->
           [value |-> FALSE,
            printed |-> <<Out("stdout", "nameserver claims does not exist", host)>>,
            raised |-> "none"]
      [] out = "NoNameservers" ->
           [value |-> FALSE,
            printed |-> <<Out("stdout", "all nameservers failed to answer", host)>>,
            raised |-> "none"]
      [] OTHER ->
           [value |-> FALSE, printed |-> <<>>, raised |-> out]

\* dns.resolver.get_default_resolver(), given the configured nameservers.
\* The library builds the resolver from the platform's configuration; a
\* reader that rejects an empty list raises NoResolverConfiguration, one
\* that accepts it returns a Resolver whose nameservers is empty.  ding.py
\* itself makes no check of the list.
get_default_resolver(conf, rejects_empty) ==
    IF conf = <<>> /\ rejects_empty
    THEN [value |-> NoResolver, printed |-> <<>>,
          raised |-> "NoResolverConfiguration", message |-> "Traceback"]
    ELSE [value |-> [kind |-> "Resolver", nameservers |-> conf],
          printed |-> <<>>, raised |-> "none", message |-> ""]

\* An all() that leaves the last element out.
all_but_last(xs) == \A i \in 1..(Len(xs) - 1) : xs[i]

\* The builtin all().
all(xs) == \A i \in 1..Len(xs) : xs[i]

\* A __post_init__ that gives up on the first failed check.
next_line_short_circuit(line, value) ==
    IF ~value THEN "line90"
    ELSE CASE line = "line84" -> "line85"
           [] line = "line85" -> "line86"
           [] line = "line86" -> "line89"
           [] OTHER           -> "line90"

\* The statement of __post_init__ that follows the check at `line`, whatever
\* the check returned.
next_line(line, value) ==
    CASE line = "line84" -> "line85"
      [] line = "line85" -> "line86"
      [] line = "line86" -> "line89"
      [] OTHER           -> "line90"

\* The __dict__ of a Resolver: a plain dict of its attributes.
dict_of(resolver) == [kind |-> "dict", nameservers |-> resolver.nameservers]

\* DingResult.__str__: d is self.__dict__ itself, not a copy, so the
\* assignment to d['default_resolver'] rebinds the instance's field.  A dict
\* has no __dict__: on a field already rebound the attribute access raises.
DingResult_str(s) ==
    IF s.default_resolver.kind # "Resolver"
    THEN [text |-> s, self |-> s, raised |-> "AttributeError"]
    ELSE LET d == [s EXCEPT !.default_resolver = dict_of(s.default_resolver)]
         IN  [text |-> d, self |-> d, raised |-> "none"]

\* An execute() whose test of the verdict lost its "not".
verdict_message_inverted(good) == IF good THEN "DOWN" ELSE "UP"

\* The message execute() ends with: sys.exit("DOWN") or print("UP").
verdict_message(good) == IF ~good THEN "DOWN" ELSE "UP"

\* An execute() that prints the report only in the DOWN branch.
execute_prints_report_when_down(good) ==
    IF verdict_message(good) = "DOWN"
    THEN <<Out("stdout", "report", ""), Out("stderr", "DOWN", "")>>
    ELSE <<Out("stdout", "UP", "")>>

\* What execute() writes after the construction, lines 108-113: sys.exit
\* with a string writes it to stderr, print writes to stdout.
execute_prints(good) ==
    IF verdict_message(good) = "DOWN"
    THEN <<Out("stdout", "report", ""), Out("stderr", "DOWN", "")>>
    ELSE <<Out("stdout", "report", ""), Out("stdout", "UP", "")>>

---------------------------------------------------------------------------
\* The process.

Running == exit_status = "running"

Init ==
    /\ pc = "line74"
    /\ system \in Systems
    /\ gateways \in DefaultTables
    /\ resolv_conf \in ResolvConfs
    /\ cls = [interface_name |-> "", default_gateway |-> "",
              default_resolver |-> NoResolver]
    /\ self = [interface_name |-> "", default_gateway |-> "",
               default_resolver |-> NoResolver,
               default_gateway_reachable |-> FALSE,
               google_reachable |-> FALSE,
               default_resolver_reachable |-> FALSE,
               google_resolvable |-> FALSE,
               good |-> FALSE]
    /\ output = <<>>
    /\ reports = <<>>
    /\ exit_status = "running"
    /\ raised = "none"
    /\ calls = <<>>
    /\ lookups = <<>>

\* The process ends on an uncaught exception or SystemExit: what the
\* function printed, then the message on stderr, and a non-zero status.
Die(printed, exc, message) ==
    /\ output' = output \o printed \o <<Out("stderr", message, exc)>>
    /\ exit_status' = "failure"
    /\ raised' = exc

\* A discovery lookup of the class body returned r; on success the class
\* attribute is set and the body goes on at `next`.
ClassBodyStep(name, r, attrs, next) ==
    /\ lookups' = Append(lookups, [name |-> name, at |-> pc,
                                   failed |-> r.raised # "none"])
    /\ IF r.raised = "none"
       THEN /\ cls' = attrs
            /\ pc' = next
            /\ UNCHANGED <<output, exit_status, raised>>
       ELSE /\ Die(r.printed, r.raised, r.message)
            /\ UNCHANGED <<cls, pc>>
    /\ UNCHANGED <<system, gateways, resolv_conf, self, reports, calls>>

\* Line 74: interface_name: str = get_default_route_interface_name()
ClassBody_interface_name ==
    /\ Running /\ pc = "line74"
    /\ LET r == get_default_route_interface_name(gateways)
       IN  ClassBodyStep("interface_name", r,
                         [cls EXCEPT !.interface_name = r.value], "line75")

\* Line 75: default_gateway: str = get_default_gateway()
ClassBody_default_gateway ==
    /\ Running /\ pc = "line75"
    /\ LET r == get_default_gateway(gateways)
       IN  ClassBodyStep("default_gateway", r,
                         [cls EXCEPT !.default_gateway = r.value], "line76")

\* Line 76: default_resolver: Resolver = get_default_resolver().  The rest
\* of the module body defines names only, so the script goes on to line 117
\* and from there to the construction at line 107.
ClassBody_default_resolver ==
    /\ Running /\ pc = "line76"
    /\ \E rejects_empty \in BOOLEAN :
         LET r == get_default_resolver(resolv_conf, rejects_empty)
         IN  ClassBodyStep("default_resolver", r,
                           [cls EXCEPT !.default_resolver = r.value], "line107")

\* Line 107: DingResult().  The generated __init__ binds every field to its
\* default, the three discovered ones to the class attributes, and then
\* calls __post_init__.
DingResult_init ==
    /\ Running /\ pc = "line107"
    /\ self' = [interface_name |-> cls.interface_name,
                default_gateway |-> cls.default_gateway,
                default_resolver |-> cls.default_resolver,
                default_gateway_reachable |-> FALSE,
                google_reachable |-> FALSE,
                default_resolver_reachable |-> FALSE,
                google_resolvable |-> FALSE,
                good |-> FALSE]
    /\ pc' = "line84"
    /\ UNCHANGED <<system, gateways, resolv_conf, cls, output, reports,
                   exit_status, raised, calls, lookups>>

\* One check of __post_init__ returned r for the field `check`.
CheckStep(check, cmd, outcome, r, fields) ==
    /\ calls' = Append(calls, [check |-> check, cmd |-> cmd,
                               outcome |-> outcome,
                               returned |-> r.raised = "none",
                               value |-> r.value,
                               logged |-> r.printed # <<>>])
    /\ IF r.raised = "none"
       THEN /\ self' = fields
            /\ output' = output \o r.printed
            /\ pc' = next_line(pc, r.value)
            /\ UNCHANGED <<exit_status, raised>>
       ELSE /\ Die(r.printed, r.raised, "Traceback")
            /\ UNCHANGED <<self, pc>>
    /\ UNCHANGED <<system, gateways, resolv_conf, cls, reports, lookups>>

PingCategory(out) ==
    IF ~out.started THEN "not_started"
    ELSE IF out.rc = 0 THEN "reply" ELSE "nonzero_exit"

\* Line 84: self.default_gateway_reachable = is_host_reachable(self.default_gateway)
post_init_default_gateway_reachable ==
    /\ Running /\ pc = "line84"
    /\ \E out \in PingOutcomes :
         LET host == self.default_gateway
             r == is_host_reachable(host, out)
         IN  CheckStep("default_gateway_reachable",
                       ping_command(system, host), PingCategory(out), r,
                       [self EXCEPT !.default_gateway_reachable = r.value])

\* Line 85: self.google_reachable = is_host_reachable(host="8.8.8.8")
post_init_google_reachable ==
    /\ Running /\ pc = "line85"
    /\ \E out \in PingOutcomes :
         LET host == "8.8.8.8"
             r == is_host_reachable(host, out)
         IN  CheckStep("google_reachable",
                       ping_command(system, host), PingCategory(out), r,
                       [self EXCEPT !.google_reachable = r.value])

\* Lines 86-88: self.default_resolver_reachable = is_host_reachable(
\* host=self.default_resolver.nameservers[0]).  The subscript is evaluated
\* before the call and raises IndexError on an empty list.
post_init_default_resolver_reachable ==
    /\ Running /\ pc = "line86"
    /\ IF self.default_resolver.nameservers = <<>>
       THEN /\ Die(<<>>, "IndexError", "Traceback")
            /\ UNCHANGED <<pc, system, gateways, resolv_conf, cls, self,
                           reports, calls, lookups>>
       ELSE \E out \in PingOutcomes :
              LET host == self.default_resolver.nameservers[1]
                  r == is_host_reachable(host, out)
              IN  CheckStep("default_resolver_reachable",
                            ping_command(system, host), PingCategory(out), r,
                            [self EXCEPT !.default_resolver_reachable = r.value])

\* Line 89: self.google_resolvable = is_host_resolvable(host="google.com")
post_init_google_resolvable ==
    /\ Running /\ pc = "line89"
    /\ \E out \in DnsOutcomes :
         LET host == "google.com"
             r == is_host_resolvable(host, out)
         IN  CheckStep("google_resolvable", <<"resolve", host>>, out, r,
                       [self EXCEPT !.google_resolvable = r.value])

\* Lines 90-97: self.good = all([...]); __post_init__ and the construction
\* return, and execute() goes on at line 108.
post_init_good ==
    /\ Running /\ pc = "line90"
    /\ self' = [self EXCEPT !.good = all(<<self.default_gateway_reachable,
                                           self.google_reachable,
                                           self.default_resolver_reachable,
                                           self.google_resolvable>>)]
    /\ pc' = "line108"
    /\ UNCHANGED <<system, gateways, resolv_conf, cls, output, reports,
                   exit_status, raised, calls, lookups>>

\* Lines 108-113: print(ding_result) in either branch, which calls __str__,
\* then sys.exit("DOWN") or print("UP") and the end of the script.
execute ==
    /\ Running /\ pc = "line108"
    /\ LET s == DingResult_str(self)
       IN  /\ self' = s.self
           /\ reports' = Append(reports, s.text)
           /\ output' = output \o execute_prints(self.good)
           /\ exit_status' = IF ~self.good THEN "failure" ELSE "success"
           /\ raised' = IF ~self.good THEN "SystemExit" ELSE "none"
           /\ pc' = IF ~self.good THEN "line110" ELSE "line113"
    /\ UNCHANGED <<system, gateways, resolv_conf, cls, calls, lookups>>

\* The operating system's default routes change while the process runs.
RouteChange ==
    /\ Running
    /\ gateways' \in DefaultTables \ {gateways}
    /\ UNCHANGED <<pc, system, resolv_conf, cls, self, output, reports,
                   exit_status, raised, calls, lookups>>

Next ==
    \/ ClassBody_interface_name
    \/ ClassBody_default_gateway
    \/ ClassBody_default_resolver
    \/ DingResult_init
    \/ post_init_default_gateway_reachable
    \/ post_init_google_reachable
    \/ post_init_default_resolver_reachable
    \/ post_init_google_resolvable
    \/ post_init_good
    \/ execute
    \/ RouteChange

Spec == Init /\ [][Next]_vars

---------------------------------------------------------------------------
\* Vocabulary of the properties.

Terminated == exit_status # "running"

\* The construction at line 107 has returned: __post_init__ ran to its end.
Constructed == pc \in {"line108", "line110", "line113"}

\* No DingResult() call has begun yet: the process is in the module body.
BeforeConstruction == pc \in {"line74", "line75", "line76", "line107"}

Positions(tag) == {i \in DOMAIN output : output[i].tag = tag}

Printed(tag) == Positions(tag) # {}

AllFourPassed ==
    /\ self.default_gateway_reachable
    /\ self.google_reachable
    /\ self.default_resolver_reachable
    /\ self.google_resolvable

\* The fields of the report in the order __post_init__ assigns them.
CheckOrder == <<"default_gateway_reachable", "google_reachable",
                "default_resolver_reachable", "google_resolvable">>

\* Discovery succeeded: the three lookups returned, and a first resolver
\* address exists.
LookupsReturned ==
    /\ Len(lookups) = Len(<<"interface_name", "default_gateway", "default_resolver">>)
    /\ \A i \in DOMAIN lookups : ~lookups[i].failed

PassedDiscovery ==
    /\ LookupsReturned
    /\ cls.default_resolver.nameservers # <<>>

\* The line of the check that follows the i-th.
next_line_after(i) ==
    CASE i = 1 -> "line85"
      [] i = 2 -> "line86"
      [] OTHER -> "line89"

\* The ways a check can fail that the specification calls recoverable.
FailureCategories ==
    {"nonzero_exit", "NXDOMAIN", "NoNameservers", "Timeout", "NoAnswer"}

---------------------------------------------------------------------------
\* C1: in a constructed DingResult, good is true exactly when the four
\* check fields are all true.
C1_VerdictIsConjunction ==
    Constructed => (self.good <=> AllFourPassed)

\* A constructed report in which only the last check failed.
C1_Witness ==
    /\ Constructed
    /\ self.default_gateway_reachable
    /\ self.google_reachable
    /\ self.default_resolver_reachable
    /\ ~self.google_resolvable
    /\ ~self.good

\* C2: once the report is constructed, execute() prints the report exactly
\* once and before the verdict message; a false verdict ends the process with
\* a failure status and "DOWN" and no "UP", a true one with "UP", a success
\* status and no "DOWN".
C2_ReportThenVerdict ==
    /\ \A tag \in {"UP", "DOWN"} :
         \A i \in Positions(tag) :
           /\ Cardinality(Positions("report")) = 1
           /\ \A j \in Positions("report") : j < i
    /\ (Terminated /\ Constructed) =>
         /\ Cardinality(Positions("report")) = 1
         /\ Len(reports) = 1
         /\ ~self.good =>
              /\ exit_status = "failure"
              /\ \E i \in Positions("DOWN") : output[i].stream = "stderr"
              /\ ~Printed("UP")
         /\ self.good =>
              /\ exit_status = "success"
              /\ \E i \in Positions("UP") : output[i].stream = "stdout"
              /\ ~Printed("DOWN")

\* A run that ended "UP" after printing its report.
C2_Witness ==
    /\ Terminated /\ Constructed /\ self.good
    /\ Printed("report") /\ Printed("UP")

\* C3: after a successful discovery, a check that fails in any recoverable
\* category (non-zero ping exit, NXDOMAIN, no nameserver answered, a query
\* timeout, an empty answer) returns false, and the run ends "DOWN" with
\* its report rather than on an unhandled error.
C3_NoCheckFailureAborts ==
    \A i \in DOMAIN calls :
      (PassedDiscovery /\ calls[i].outcome \in FailureCategories) =>
        /\ calls[i].returned
        /\ ~calls[i].value
        /\ (Terminated /\ \A j \in DOMAIN calls : calls[j].outcome # "not_started") =>
             /\ Printed("report")
             /\ Printed("DOWN")

\* C4: a default-interface or default-gateway lookup that finds no IPv4
\* default route ends the run with the fatal no-default-route error: the
\* interface statistics are dumped, the status is non-zero with the
\* explanatory message, and no check is ever run.
C4_NoDefaultRouteIsFatal ==
    \A i \in DOMAIN lookups :
      (lookups[i].name \in {"interface_name", "default_gateway"} /\ lookups[i].failed) =>
        /\ Printed("net_if_stats")
        /\ Printed("No default gateway!")
        /\ exit_status = "failure"
        /\ calls = <<>>

\* C5: with an empty resolver list the run aborts at discovery: no check is
\* ever run and no report is produced.
C5_EmptyResolverListIsFatalAtDiscovery ==
    resolv_conf = <<>> =>
      /\ calls = <<>>
      /\ reports = <<>>
      /\ Terminated => pc \in {"line74", "line75", "line76"}

\* C6 as stated: every run that ended has printed "UP" or "DOWN", "UP" only
\* when all four checks passed and "DOWN" when a check failed or a fatal
\* discovery error occurred.
C6_EveryRunEndsUpOrDown ==
    Terminated =>
      /\ Printed("UP") \/ Printed("DOWN")
      /\ Printed("UP") => AllFourPassed
      /\ ~Constructed => Printed("DOWN")

\* C6 as amended: a run that ended has printed "UP" or "DOWN" exactly when
\* its report was constructed, never both, "UP" only with all four checks
\* passed and a success status, "DOWN" only with a failed check and a
\* failure status; a run that ended on the fatal no-default-route error has
\* printed "No default gateway!" and neither of the two.
C6_UpOrDownIffConstructed ==
    Terminated =>
      /\ (Printed("UP") \/ Printed("DOWN")) <=> Constructed
      /\ ~(Printed("UP") /\ Printed("DOWN"))
      /\ Printed("UP") => (AllFourPassed /\ exit_status = "success")
      /\ Printed("DOWN") => (~AllFourPassed /\ exit_status = "failure")
      /\ (pc = "line74") =>
           /\ Printed("No default gateway!")
           /\ exit_status = "failure"
           /\ ~Printed("UP") /\ ~Printed("DOWN")

\* A run that ended on the fatal no-default-route error.
C6_Witness ==
    /\ Terminated /\ pc = "line74"
    /\ Printed("No default gateway!")
    /\ ~Printed("UP") /\ ~Printed("DOWN")

\* C7: is_host_reachable never raises, whatever the ping invocation did; it
\* returns true exactly when ping exited with status 0 and logs the host
\* exactly when it returns false.
C7_ReachableNeverRaises ==
    \A i \in DOMAIN calls :
      calls[i].cmd[1] = "ping" =>
        /\ calls[i].returned
        /\ calls[i].value <=> (calls[i].outcome = "reply")
        /\ calls[i].logged <=> ~calls[i].value

C9_RenderLeavesFieldsUnchanged ==
    [][pc = "line108" => self' = self]_vars

\* C10: no discovery lookup, and no fatal discovery exit, happens before a
\* DingResult is being constructed.
C10_DiscoveryDuringConstruction ==
    (lookups # <<>> \/ Terminated) => ~BeforeConstruction

====
